---- MODULE Spec2Model ----
(***************************************************************************)
(* The Evolution of Todo, Phase 3 (AI chatbot backend).                    *)
(*                                                                         *)
(* Three specifications over one state:                                    *)
(*   SpecTools  the MCP task tools of mcp/tools/task_operations.py acting  *)
(*              on the task table;                                         *)
(*   SpecConf   the ConfirmationHandler of ai/confirmation_handler.py with *)
(*              a caller-supplied executor;                                *)
(*   SpecAgent  AIAgentService.process_command, the confirmation endpoint  *)
(*              of api/routes/ai_chat.py and the handler, sharing the task *)
(*              table and the audit log.                                   *)
(*                                                                         *)
(* Storage sessions, the audit store and the tool executor are boundary    *)
(* collaborators: each call of one either works or raises, chosen by the   *)
(* environment.                                                            *)
(***************************************************************************)
EXTENDS Integers, Sequences, FiniteSets, TLC

\* ------------------------------------------------------------------ bounds
MaxTasks == 2
MaxConf == 2
MaxTime == 15
TickStep == 5
MaxCalls == 2
MaxAgentTasks == 1
MaxPad == 2
MaxContext == 3
MaxProcs == 2

\* ------------------------------------------------------- program constants
MaxTitleLen == 200
TTLMinutes == 10
MaxMessageLen == 1000
MaxRetries == 3
MaxResponseLen == 2000

\* ------------------------------------------------------------- data domains
Users == {"u1", "u2"}
BlankIds == {"", " "}
Identities == Users \cup BlankIds
TaskIds == 1..MaxTasks
ConfIds == 1..MaxConf

\* A title is a sequence of characters; " " is whitespace.
LongTitle == [i \in 1..(MaxTitleLen + 1) |-> "a"]
NoTitle == <<"<None>">>
AddTitles == {<<>>, <<" ">>, <<"a">>, <<" ", "b">>, LongTitle}
UpdateTitles == {NoTitle, <<" ">>, <<"b", " ">>, LongTitle}
NoFlag == "None"
Flags == {NoFlag, "True", "False"}

RECURSIVE LStrip(_)
LStrip(s) == IF s # <<>> /\ Head(s) = " " THEN LStrip(Tail(s)) ELSE s

RECURSIVE RStrip(_)
RStrip(s) ==
    IF s # <<>> /\ s[Len(s)] = " " THEN RStrip(SubSeq(s, 1, Len(s) - 1)) ELSE s

Strip(s) == RStrip(LStrip(s))

\* auth_validation.validate_user_id: a non-empty, non-blank string.
validate_user_id(user_id) == user_id \notin BlankIds

\* Texts that may be long (chat messages, model replies, error messages) are
\* kept as runs: n repetitions of a symbol, which is one character or one of
\* the phrases the code searches for, in some spelling.
Run(ch, n) == [ch |-> ch, n |-> n]

Width(ch) ==
    CASE ch \in {"as an ai language model", "As an AI language model"} -> 23
      [] ch \in {"ignore previous", "Ignore Previous"} -> 15
      [] ch = "disregard instructions" -> 22
      [] ch = "system prompt" -> 13
      [] ch \in {"rate limit", "Rate Limit", "connection"} -> 10
      [] ch \in {"timeout", "Timeout"} -> 7
      [] ch \in {"429", "500", "502", "503"} -> 3
      [] ch = "invalid api key" -> 15
      [] ch = "I've processed your request." -> 28
      [] ch = "I apologize, but I cannot process that request. Please try rephrasing your command." -> 83
      [] OTHER -> 1

\* str.lower() on one symbol.
LowerSym(ch) ==
    CASE ch = "As an AI language model" -> "as an ai language model"
      [] ch = "Ignore Previous" -> "ignore previous"
      [] ch = "Rate Limit" -> "rate limit"
      [] ch = "Timeout" -> "timeout"
      [] ch = "X" -> "x"
      [] OTHER -> ch

Lower(text) == [i \in 1..Len(text) |-> Run(LowerSym(text[i].ch), text[i].n)]

\* len(text)
RECURSIVE TextLen(_)
TextLen(text) ==
    IF text = <<>> THEN 0
    ELSE Width(Head(text).ch) * Head(text).n + TextLen(Tail(text))

\* phrase in text
Contains(text, phrase) == \E i \in 1..Len(text) : text[i].ch = phrase

RECURSIVE LStripText(_)
LStripText(text) ==
    IF text # <<>> /\ Head(text).ch = " " THEN LStripText(Tail(text)) ELSE text

RECURSIVE RStripText(_)
RStripText(text) ==
    IF text # <<>> /\ text[Len(text)].ch = " "
    THEN RStripText(SubSeq(text, 1, Len(text) - 1))
    ELSE text

\* text.strip()
StripText(text) == RStripText(LStripText(text))

\* text[:k]; a run is cut between two of its symbols.
RECURSIVE Take(_, _)
Take(text, k) ==
    IF text = <<>> \/ k <= 0 THEN <<>>
    ELSE LET r == Head(text)
             w == Width(r.ch)
         IN  IF w * r.n <= k
             THEN <<r>> \o Take(Tail(text), k - w * r.n)
             ELSE IF k \div w = 0 THEN <<>>
             ELSE <<Run(r.ch, k \div w)>>

\* ---------------------------------------------------------------- variables
VARIABLES
    tasks,      \* task table: id -> [user_id, title, completed]
    nextId,     \* next primary key of the task table
    last,       \* the finished MCP tool call and what it returned
    pending,    \* ConfirmationHandler.pending_confirmations
    nextConf,   \* number of confirmation ids handed out
    now,        \* the clock, in minutes
    clast,      \* the finished confirmation-handler call
    consumed,   \* ids that were approved, rejected or found expired
    audit,      \* tool_call_logs rows written by the running (or last) call
    execs,      \* tool calls that call handed to the executor, in order
    req,        \* the process_command call in progress or just finished
    turn,       \* what that call did before its loop over tool calls
    shutdown,   \* AIAgentService._shutdown
    moderated,  \* a model reply and the response text made of it
    limited,    \* a context, a token budget and the context trimmed to it
    workers,    \* handler calls running concurrently, each at its await point
    invoked     \* per confirmation id: executor invocations, successful returns

toolVars == <<tasks, nextId, last>>
confVars == <<pending, nextConf, now, clast, consumed>>
logVars == <<audit, execs>>
raceVars == <<workers, invoked>>
restVars == <<moderated, limited, raceVars>>
agentVars == <<req, turn, shutdown, restVars>>
vars == <<tasks, nextId, last, pending, nextConf, now, clast, consumed,
          audit, execs, req, turn, shutdown, moderated, limited, workers,
          invoked>>

\* ------------------------------------------------------- MCP task tools
Opt(table, id) == IF id \in DOMAIN table THEN <<table[id]>> ELSE <<>>

Remove(table, id) == [k \in DOMAIN table \ {id} |-> table[k]]

Put(table, id, rec) ==
    [k \in DOMAIN table \cup {id} |-> IF k = id THEN rec ELSE table[k]]

\* The ownership query without its owner filter (any existing row passes).
verify_user_owns_task_AnyOwner(table, user_id, task_id, db) ==
    /\ db = "ok"
    /\ task_id \in DOMAIN table

\* An ownership query that lets the caller through when the query fails.
verify_user_owns_task_FailOpen(table, user_id, task_id, db) ==
    \/ db # "ok"
    \/ /\ task_id \in DOMAIN table
       /\ table[task_id].user_id = user_id

\* verify_user_owns_task: a row with this id and this owner exists; any
\* storage error is swallowed and answers False.
verify_user_owns_task(table, user_id, task_id, db) ==
    /\ db = "ok"
    /\ task_id \in DOMAIN table
    /\ table[task_id].user_id = user_id

\* ToolOrchestrator.validate_user_permission_for_task: the call it makes,
\* verify_user_owns_task(user_id, task_id, session), has one argument more
\* than the function takes; the TypeError is caught by the except clause, which
\* returns False.
validate_user_permission_for_task(table, user_id, task_id, db) == FALSE

ToolResult(code, table, next, ret) ==
    [code |-> code, tasks |-> table, nextId |-> next, ret |-> ret]

InvalidTitle(title) == Len(Strip(title)) = 0 \/ Len(title) > MaxTitleLen

add_task(table, next, user_id, title, db) ==
    IF ~validate_user_id(user_id)
    THEN ToolResult("INVALID_USER_ID", table, next, {})
    ELSE IF InvalidTitle(title)
    THEN ToolResult("INVALID_TITLE", table, next, {})
    ELSE IF db # "ok"
    THEN ToolResult("DATABASE_ERROR", table, next, {})
    ELSE ToolResult("success",
                    Put(table, next, [user_id |-> user_id,
                                      title |-> Strip(title),
                                      completed |-> FALSE]),
                    next + 1, {next})

\* The listing query without its owner filter.
list_tasks_AnyOwner(table, next, user_id, status, db) ==
    IF ~validate_user_id(user_id)
    THEN ToolResult("INVALID_USER_ID", table, next, {})
    ELSE IF db # "ok"
    THEN ToolResult("DATABASE_ERROR", table, next, {})
    ELSE ToolResult("success", table, next,
                    {k \in DOMAIN table :
                        /\ status = "pending" => ~table[k].completed
                        /\ status = "completed" => table[k].completed})

list_tasks(table, next, user_id, status, db) ==
    IF ~validate_user_id(user_id)
    THEN ToolResult("INVALID_USER_ID", table, next, {})
    ELSE IF db # "ok"
    THEN ToolResult("DATABASE_ERROR", table, next, {})
    ELSE ToolResult("success", table, next,
                    {k \in DOMAIN table :
                        /\ table[k].user_id = user_id
                        /\ status = "pending" => ~table[k].completed
                        /\ status = "completed" => table[k].completed})

update_task(table, next, user_id, task_id, title, completed, dbv, db) ==
    IF ~validate_user_id(user_id)
    THEN ToolResult("INVALID_USER_ID", table, next, {})
    ELSE IF ~verify_user_owns_task(table, user_id, task_id, dbv)
    THEN ToolResult("TASK_NOT_FOUND_OR_UNAUTHORIZED", table, next, {})
    ELSE IF db # "ok"
    THEN ToolResult("DATABASE_ERROR", table, next, {})
    ELSE IF task_id \notin DOMAIN table
    THEN ToolResult("TASK_NOT_FOUND", table, next, {})
    ELSE IF title # NoTitle /\ InvalidTitle(title)
    THEN ToolResult("INVALID_TITLE", table, next, {})
    ELSE ToolResult("success",
                    Put(table, task_id,
                        [user_id |-> table[task_id].user_id,
                         title |-> IF title # NoTitle THEN Strip(title)
                                   ELSE table[task_id].title,
                         completed |-> IF completed # NoFlag
                                       THEN completed = "True"
                                       ELSE table[task_id].completed]),
                    next, {task_id})

complete_task(table, next, user_id, task_id, completed, dbv, db) ==
    IF ~validate_user_id(user_id)
    THEN ToolResult("INVALID_USER_ID", table, next, {})
    ELSE update_task(table, next, user_id, task_id, NoTitle, completed, dbv, db)

delete_task(table, next, user_id, task_id, dbv, db) ==
    IF ~validate_user_id(user_id)
    THEN ToolResult("INVALID_USER_ID", table, next, {})
    ELSE IF ~verify_user_owns_task(table, user_id, task_id, dbv)
    THEN ToolResult("TASK_NOT_FOUND_OR_UNAUTHORIZED", table, next, {})
    ELSE IF db # "ok"
    THEN ToolResult("DATABASE_ERROR", table, next, {})
    ELSE IF task_id \notin DOMAIN table
    THEN ToolResult("TASK_NOT_FOUND", table, next, {})
    ELSE ToolResult("success", Remove(table, task_id), next, {task_id})

DbOutcomes == {"ok", "fail"}

NoFilter == "None"
StatusFilters == {NoFilter, "all", "pending", "completed"}

NoLast ==
    [op |-> "none", user |-> "", id |-> 0, code |-> "none",
     before |-> <<>>, ret |-> {}]

Finish(op, user_id, task_id, r) ==
    /\ tasks' = r.tasks
    /\ nextId' = r.nextId
    /\ last' = [op |-> op, user |-> user_id, id |-> task_id, code |-> r.code,
                before |-> Opt(tasks, task_id), ret |-> r.ret]

AddTask ==
    \E u \in Identities, t \in AddTitles, db \in DbOutcomes :
        /\ nextId <= MaxTasks
        /\ Finish("add_task", u, nextId, add_task(tasks, nextId, u, t, db))
        /\ UNCHANGED <<confVars, logVars, agentVars>>

ListTasks ==
    \E u \in Identities, s \in StatusFilters, db \in DbOutcomes :
        /\ Finish("list_tasks", u, 0, list_tasks(tasks, nextId, u, s, db))
        /\ UNCHANGED <<confVars, logVars, agentVars>>

UpdateTask ==
    \E u \in Identities, id \in TaskIds, t \in UpdateTitles, c \in Flags,
       dbv \in DbOutcomes, db \in DbOutcomes :
        /\ Finish("update_task", u, id,
                  update_task(tasks, nextId, u, id, t, c, dbv, db))
        /\ UNCHANGED <<confVars, logVars, agentVars>>

CompleteTask ==
    \E u \in Identities, id \in TaskIds, c \in {"True", "False"},
       dbv \in DbOutcomes, db \in DbOutcomes :
        /\ Finish("complete_task", u, id,
                  complete_task(tasks, nextId, u, id, c, dbv, db))
        /\ UNCHANGED <<confVars, logVars, agentVars>>

DeleteTask ==
    \E u \in Identities, id \in TaskIds, dbv \in DbOutcomes,
       db \in DbOutcomes :
        /\ Finish("delete_task", u, id,
                  delete_task(tasks, nextId, u, id, dbv, db))
        /\ UNCHANGED <<confVars, logVars, agentVars>>

\* ------------------------------------------------- ConfirmationHandler
\* Only task 1 is ever put behind a confirmation.
ConfTaskIds == {1}
ConfStatuses == {"pending", "approved", "rejected"}
LogOutcomes == {"ok", "fail"}
ExecutorOutcomes == {"none", "ok", "raise"}

AuditEntry(user_id, tool_name, tool_params, status) ==
    [user_id |-> user_id, tool_name |-> tool_name,
     tool_params |-> tool_params, status |-> status]

\* create_confirmation_request: a fresh id, status pending, expiry = now + TTL.
create_confirmation_request(pend, n, user_id, tool_name, tool_params, t) ==
    Put(pend, n + 1,
        [user_id |-> user_id, tool_name |-> tool_name,
         tool_params |-> tool_params, expires_at |-> t + TTLMinutes,
         status |-> "pending"])

\* validate_confirmation without the owner comparison.
validate_confirmation_AnyUser(pend, c, user_id, t) ==
    IF c \notin DOMAIN pend
    THEN [result |-> "not_found", pending |-> pend]
    ELSE IF pend[c].status # "pending"
    THEN [result |-> "not_pending", pending |-> pend]
    ELSE IF pend[c].expires_at < t
    THEN [result |-> "expired", pending |-> Remove(pend, c)]
    ELSE [result |-> "ok", pending |-> pend]

\* validate_confirmation that reports expiry but keeps the stale record.
validate_confirmation_KeepExpired(pend, c, user_id, t) ==
    IF c \notin DOMAIN pend
    THEN [result |-> "not_found", pending |-> pend]
    ELSE IF pend[c].status # "pending"
    THEN [result |-> "not_pending", pending |-> pend]
    ELSE IF pend[c].user_id # user_id
    THEN [result |-> "permission", pending |-> pend]
    ELSE IF pend[c].expires_at < t
    THEN [result |-> "expired", pending |-> pend]
    ELSE [result |-> "ok", pending |-> pend]

\* validate_confirmation: the checks in the order of the code; only the
\* expiry check changes the store.
validate_confirmation(pend, c, user_id, t) ==
    IF c \notin DOMAIN pend
    THEN [result |-> "not_found", pending |-> pend]
    ELSE IF pend[c].status # "pending"
    THEN [result |-> "not_pending", pending |-> pend]
    ELSE IF pend[c].user_id # user_id
    THEN [result |-> "permission", pending |-> pend]
    ELSE IF pend[c].expires_at < t
    THEN [result |-> "expired", pending |-> Remove(pend, c)]
    ELSE [result |-> "ok", pending |-> pend]

\* One invocation of a tool executor and how it ended.
Exec(tool_name, tool_params, kind) ==
    [tool_name |-> tool_name, tool_params |-> tool_params, kind |-> kind]

\* What one call of the handler did: kind tells how the executor ended
\* ("none" when it was not called).
ConfResult(result, pend, kind, entries) ==
    [result |-> result, pending |-> pend, executed |-> kind # "none",
     kind |-> kind, entries |-> entries]

\* approve_confirmation, given how the executor (ex) and the two possible
\* audit writes (logS after success, logE in the except block) turn out.
\* The record is deleted only on the path that does not raise.
approve_confirmation(pend, c, user_id, t, ex, logS, logE) ==
    LET v == validate_confirmation(pend, c, user_id, t)
        marked == [v.pending EXCEPT ![c].status = "approved"]
        entry(status) ==
            AuditEntry(user_id, pend[c].tool_name, pend[c].tool_params, status)
        errLog == IF logE = "ok" THEN <<entry("error")>> ELSE <<>>
    IN  IF v.result # "ok"
        THEN ConfResult(v.result, v.pending, "none", <<>>)
        ELSE IF ex = "none"
        THEN ConfResult("approved", Remove(marked, c), "none", <<>>)
        ELSE IF ex = "ok" /\ logS = "ok"
        THEN ConfResult("approved", Remove(marked, c), "ok",
                        <<entry("success")>>)
        ELSE IF ex = "ok"
        THEN ConfResult("AuditLoggingError", marked, "ok", errLog)
        ELSE IF logE = "ok"
        THEN ConfResult("executor_raised", marked, "ToolExecutionError", errLog)
        ELSE ConfResult("AuditLoggingError", marked, "ToolExecutionError",
                        errLog)

\* A rejection that marks the record and leaves it in the store.
reject_confirmation_KeepRecord(pend, c, user_id, t) ==
    LET v == validate_confirmation(pend, c, user_id, t)
    IN  IF v.result # "ok"
        THEN ConfResult(v.result, v.pending, "none", <<>>)
        ELSE ConfResult("rejected",
                        [v.pending EXCEPT ![c].status = "rejected"],
                        "none", <<>>)

\* reject_confirmation: validate, mark rejected, delete.
reject_confirmation(pend, c, user_id, t) ==
    LET v == validate_confirmation(pend, c, user_id, t)
    IN  IF v.result # "ok"
        THEN ConfResult(v.result, v.pending, "none", <<>>)
        ELSE ConfResult("rejected", Remove(v.pending, c), "none", <<>>)

\* cleanup_expired_confirmations: drop every record past its expiry.
ExpiredIds(pend, t) == {c \in DOMAIN pend : pend[c].expires_at < t}

cleanup_expired_confirmations(pend, t) ==
    [c \in DOMAIN pend \ ExpiredIds(pend, t) |-> pend[c]]

ConfCall(op, c, user_id, r) ==
    /\ pending' = r.pending
    /\ clast' = [op |-> op, id |-> c, user |-> user_id, result |-> r.result,
                 before |-> Opt(pending, c), after |-> Opt(r.pending, c),
                 executed |-> r.executed, at |-> now,
                 reused |-> c \in consumed]
    /\ consumed' = IF r.result \in {"approved", "executor_raised",
                                     "AuditLoggingError", "rejected", "expired"}
                   THEN consumed \cup {c} ELSE consumed
    /\ audit' = r.entries
    /\ execs' = IF r.executed
                THEN <<Exec(pending[c].tool_name, pending[c].tool_params,
                            r.kind)>>
                ELSE <<>>
    /\ UNCHANGED <<nextConf, now>>

CreateConfirmation ==
    \E u \in Users, t \in ConfTaskIds :
        /\ nextConf < MaxConf
        /\ pending' = create_confirmation_request(
                          pending, nextConf, u, "delete_task",
                          [user_id |-> u, task_id |-> t], now)
        /\ nextConf' = nextConf + 1
        /\ UNCHANGED <<now, clast, consumed, toolVars, logVars, agentVars>>

ValidateConfirmation ==
    \E c \in ConfIds, u \in Users :
        /\ ConfCall("validate", c, u,
                    LET v == validate_confirmation(pending, c, u, now)
                    IN  ConfResult(v.result, v.pending, "none", <<>>))
        /\ UNCHANGED <<toolVars, agentVars>>

\* approve_confirmation with a caller-supplied executor that works or raises.
ApproveConfirmation ==
    \E c \in ConfIds, u \in Users, ex \in ExecutorOutcomes,
       logS \in LogOutcomes, logE \in LogOutcomes :
        /\ ConfCall("approve", c, u,
                    approve_confirmation(pending, c, u, now, ex, logS, logE))
        /\ UNCHANGED <<toolVars, agentVars>>

RejectConfirmation ==
    \E c \in ConfIds, u \in Users :
        /\ ConfCall("reject", c, u, reject_confirmation(pending, c, u, now))
        /\ UNCHANGED <<toolVars, agentVars>>

CleanupExpired ==
    /\ ExpiredIds(pending, now) # {}
    /\ pending' = cleanup_expired_confirmations(pending, now)
    /\ consumed' = consumed \cup ExpiredIds(pending, now)
    /\ UNCHANGED <<nextConf, now, clast, toolVars, logVars, agentVars>>

Tick ==
    /\ now + TickStep <= MaxTime
    /\ now' = now + TickStep
    /\ UNCHANGED <<pending, nextConf, clast, consumed, toolVars, logVars,
                   agentVars>>

\* ------------------------------------------- AIAgentService.process_command
ToolNames ==
    {"add_task", "list_tasks", "update_task", "complete_task", "delete_task"}

\* What the model may return as one tool call: a tool name and its decoded
\* JSON arguments, with or without a user_id of the model's own making.
NoUser == "<absent>"
ArgUsers == {NoUser, "u2"}
ModelCalls ==
    {c \in [name : ToolNames,
            args : [user_id : ArgUsers, task_id : ConfTaskIds]] :
        c.args.user_id # NoUser => c.name \in {"complete_task", "delete_task"}}

NoCall == [name |-> "none", args |-> [user_id |-> "", task_id |-> 0]]

\* A variant that takes every tool for destructive.
_is_destructive_operation_All(tool_name) == tool_name \in ToolNames

\* A variant whose allow-list misses delete_task.
_is_destructive_operation_Empty(tool_name) == tool_name \in {}

_is_destructive_operation(tool_name) == tool_name \in {"delete_task"}

\* function_args['user_id'] = user_id
Inject(args, user_id) == [args EXCEPT !.user_id = user_id]

\* MCPAdapters behind _execute_mcp_tool.  ex = "raise" stands for any
\* exception inside the adapter, which surfaces as ToolExecutionError; a
\* failed ownership check surfaces as UserPermissionError.
ExecResult(kind, table, next) == [kind |-> kind, tasks |-> table, nextId |-> next]

FromTool(r) ==
    ExecResult(IF r.code = "success" THEN "ok" ELSE "ToolExecutionError",
               r.tasks, r.nextId)

_execute_mcp_tool(tool_name, params, table, next, ex) ==
    IF ex = "raise" \/ tool_name \notin ToolNames
    THEN ExecResult("ToolExecutionError", table, next)
    ELSE IF ~validate_user_id(params.user_id)
    THEN ExecResult("ToolExecutionError", table, next)
    ELSE IF tool_name = "add_task"
    THEN FromTool(add_task(table, next, params.user_id, <<"a">>, "ok"))
    ELSE IF tool_name = "list_tasks"
    THEN FromTool(list_tasks(table, next, params.user_id, "all", "ok"))
    ELSE IF params.task_id <= 0
    THEN ExecResult("ToolExecutionError", table, next)
    ELSE IF ~verify_user_owns_task(table, params.user_id, params.task_id, "ok")
    THEN ExecResult("UserPermissionError", table, next)
    ELSE IF tool_name = "update_task"
    THEN FromTool(update_task(table, next, params.user_id, params.task_id,
                              <<"a">>, NoFlag, "ok", "ok"))
    ELSE IF tool_name = "complete_task"
    THEN FromTool(complete_task(table, next, params.user_id, params.task_id,
                                "True", "ok", "ok"))
    ELSE FromTool(delete_task(table, next, params.user_id, params.task_id,
                              "ok", "ok"))

Outcome(tool_name, tool_params, result, status) ==
    [tool_name |-> tool_name, tool_params |-> tool_params,
     result |-> result, status |-> status]

\* An audit write that returns as if the row were stored when the store fails.
log_tool_call_Swallowed(entry, log) ==
    [raised |-> FALSE, rows |-> IF log = "ok" THEN <<entry>> ELSE <<>>]

\* AuditLogger.log_tool_call: add the row and commit; any exception becomes
\* AuditLoggingError and no row is stored.
log_tool_call(entry, log) ==
    [raised |-> log # "ok", rows |-> IF log = "ok" THEN <<entry>> ELSE <<>>]

\* A list of outcomes that grows at its head.
AppendOutcome_Front(outcomes, o) == <<o>> \o outcomes

\* executed_tool_calls.append(...)
AppendOutcome(outcomes, o) == Append(outcomes, o)

StepResult(rq, table, next, entries, ex) ==
    [req |-> rq, tasks |-> table, nextId |-> next, entries |-> entries,
     execs |-> ex]

\* An except block that writes the error row and then re-raises, ending the
\* whole request.
on_call_exception_Reraise(rq, call, user_id, logE) ==
    [req |-> [rq EXCEPT !.pc = "raised"],
     entries |-> IF logE = "ok"
                 THEN <<AuditEntry(user_id, call.name, call.args, "error")>>
                 ELSE <<>>]

\* The per-call except block: write an error row with the arguments as the
\* model sent them, then add an error outcome.  If that write raises, the
\* exception leaves the loop and the request ends in AIProcessingError.
on_call_exception(rq, call, user_id, logE) ==
    LET w == log_tool_call(AuditEntry(user_id, call.name, call.args, "error"),
                           logE)
    IN  IF ~w.raised
        THEN [req |-> [rq EXCEPT !.outcomes =
                           AppendOutcome(@, Outcome(call.name, call.args,
                                                    "error", "error"))],
              entries |-> w.rows]
        ELSE [req |-> [rq EXCEPT !.pc = "raised"], entries |-> w.rows]

\* One iteration of the loop over tool_calls.
process_tool_call(rq0, call, table, next, ex, logS, logE) ==
    LET rq == [rq0 EXCEPT !.cur = call, !.calls = Append(@, call)]
    IN  IF rq.rc /\ _is_destructive_operation(call.name)
        THEN StepResult([rq EXCEPT !.flag = TRUE,
                                   !.outcomes = AppendOutcome(@,
                                       Outcome(call.name, call.args, "null", "pending"))],
                        table, next, <<>>, <<>>)
        ELSE LET function_args == Inject(call.args, rq.user)
                 e == _execute_mcp_tool(call.name, function_args, table, next, ex)
                 ran == <<Exec(call.name, function_args, e.kind)>>
                 w == log_tool_call(AuditEntry(rq.user, call.name,
                                               function_args, "success"),
                                    logS)
                 x == on_call_exception(rq, call, rq.user, logE)
             IN  IF e.kind = "ok" /\ ~w.raised
                 THEN StepResult(
                          [rq EXCEPT !.outcomes = AppendOutcome(@,
                               Outcome(call.name, function_args, "result", "success"))],
                          e.tasks, e.nextId, w.rows, ran)
                 ELSE StepResult(x.req, e.tasks, e.nextId, x.entries, ran)

\* What a request did before its loop: the message (a sequence of one) until
\* the model has answered, context reads, the exception process_command ended with, and the
\* state of _call_ai_model_with_retry while it runs or after it raised: model
\* calls made, backoff sleeps, the text of the last failure.
Turn(msg, ctx, attempts, sleeps, err, error) ==
    [msg |-> msg, ctx |-> ctx, attempts |-> attempts, sleeps |-> sleeps,
     err |-> err, error |-> error]

NoTurn == Turn(<<>>, 0, 0, 0, <<>>, "none")

\* A request whose model call has returned an answer.
AnsweredTurn == Turn(<<>>, 1, 0, 0, <<>>, "none")

\* process_command up to the model's answer, for a service that is up, a
\* message that passes and a model that answers at once: the model returned n
\* tool calls.
StartCommand ==
    \E u \in Users, rc \in BOOLEAN, n \in 0..MaxCalls :
        /\ req.pc \in {"idle", "done", "raised"}
        /\ ~shutdown
        /\ req' = [pc |-> "tools", user |-> u, rc |-> rc, n |-> n,
                   outcomes |-> <<>>, flag |-> FALSE, cur |-> NoCall,
                   calls |-> <<>>]
        /\ turn' = AnsweredTurn
        /\ audit' = <<>>
        /\ execs' = <<>>
        /\ UNCHANGED <<toolVars, confVars, shutdown, restVars>>

\* shutdown(): set the flag and close the client; the service has no
\* confirmation_handler attribute to clean up.  The flag stands for both: the
\* client is closed from the moment the service is shut down.
Shutdown ==
    /\ shutdown' = TRUE
    /\ UNCHANGED <<toolVars, confVars, logVars, req, turn, restVars>>

Messages ==
    {<<>>,
     <<Run(" ", 2)>>,
     <<Run("x", 1)>>,
     <<Run(" ", 1), Run("x", MaxMessageLen - 2), Run(" ", 1)>>,
     <<Run("x", MaxMessageLen + 1)>>,
     <<Run(" ", 1), Run("x", MaxMessageLen - 1), Run(" ", 1)>>}

\* A gate that measures the stripped message.
MessageGate_Stripped(message) ==
    IF message = <<>> \/ StripText(message) = <<>> THEN "empty"
    ELSE IF TextLen(StripText(message)) > MaxMessageLen THEN "too_long"
    ELSE "ok"

\* The two checks on the message, in the order of the code.
MessageGate(message) ==
    IF message = <<>> \/ StripText(message) = <<>> THEN "empty"
    ELSE IF TextLen(message) > MaxMessageLen THEN "too_long"
    ELSE "ok"

\* A service that lets requests in after shutdown().
Admission_IgnoreShutdown(down, message) == MessageGate(message)

\* The shutdown flag is looked at first, then the message.
Admission(down, message) ==
    IF down THEN "shutdown" ELSE MessageGate(message)

\* process_command from its first line to the call of the context
\* reconstructor: the shutdown flag, then the checks on the message.
BeginCommand ==
    \E u \in Users, message \in Messages, rc \in BOOLEAN :
        LET start == [pc |-> "context", user |-> u, rc |-> rc, n |-> 0,
                      outcomes |-> <<>>, flag |-> FALSE, cur |-> NoCall,
                      calls |-> <<>>]
            stop == [start EXCEPT !.pc = "raised"]
        IN  /\ req.pc \in {"idle", "done", "raised"}
            /\ IF Admission(shutdown, message) # "ok"
               THEN /\ req' = stop
                    /\ turn' = Turn(<<message>>, 0, 0, 0, <<>>,
                                    "AIProcessingError")
               ELSE /\ req' = start
                    /\ turn' = Turn(<<message>>, 0, 0, 0, <<>>, "none")
            /\ audit' = <<>>
            /\ execs' = <<>>
            /\ UNCHANGED <<toolVars, confVars, shutdown, restVars>>

\* context_reconstructor.reconstruct_context returns, or raises
\* ContextRetrievalError, which process_command passes on.
ReconstructContext ==
    \E ctx \in {"ok", "raise"} :
        /\ req.pc = "context"
        /\ IF ctx = "ok"
           THEN /\ req' = [req EXCEPT !.pc = "model"]
                /\ turn' = [turn EXCEPT !.ctx = @ + 1]
           ELSE /\ req' = [req EXCEPT !.pc = "raised"]
                /\ turn' = [turn EXCEPT !.ctx = @ + 1,
                                        !.error = "ContextRetrievalError"]
        /\ UNCHANGED <<toolVars, confVars, logVars, shutdown, restVars>>

TransientErrors ==
    {"timeout", "connection", "rate limit", "503", "502", "500", "429"}

\* Messages of the exceptions the model client may raise.
ErrorTexts ==
    {<<Run("503", 1), Run(" ", 1), Run("x", 3)>>,
     <<Run("Rate Limit", 1)>>,
     <<Run("x", 2), Run("Timeout", 1)>>,
     <<Run("invalid api key", 1)>>,
     <<>>}

\* A classification that takes every failure for a transient one.
is_transient_Always(error_text) == TRUE

\* any(err in str(e).lower() for err in transient_errors)
is_transient(error_text) ==
    \E err \in TransientErrors : Contains(Lower(error_text), err)

ModelOutcomes == {<<"ok">>} \cup {<<"error", t>> : t \in ErrorTexts}

\* A loop that would go round once more than max_retries.
LastAttempt_OneMore(attempt) == attempt = MaxRetries

\* attempt == max_retries - 1, with attempts counted from 0.
LastAttempt(attempt) == attempt = MaxRetries - 1

\* One round of the loop in _call_ai_model_with_retry: call the model; on an
\* answer go on to the tool calls, on a failure either sleep and stay in the
\* loop or re-raise, which process_command turns into AIProcessingError.
\* shutdown() closes self.client, the one client every request sends through
\* (await self.client.close()); a request sent through a closed client is
\* refused by the client with an error that names none of the transient
\* markers.
ClosedClientError == <<Run("client has been closed", 1)>>

ClientOutcomes(closed) ==
    IF closed THEN {<<"error", ClosedClientError>>} ELSE ModelOutcomes

CallModel ==
    \E out \in ClientOutcomes(shutdown), n \in 0..MaxCalls :
        /\ req.pc = "model"
        /\ IF out[1] = "ok"
           THEN /\ req' = [req EXCEPT !.pc = "tools", !.n = n]
                /\ turn' = AnsweredTurn
           ELSE IF is_transient(out[2]) /\ ~LastAttempt(turn.attempts)
           THEN /\ req' = req
                /\ turn' = [turn EXCEPT !.attempts = @ + 1, !.sleeps = @ + 1,
                                         !.err = out[2]]
           ELSE /\ req' = [req EXCEPT !.pc = "raised"]
                /\ turn' = [turn EXCEPT !.attempts = @ + 1, !.err = out[2],
                                         !.error = "AIProcessingError"]
        /\ UNCHANGED <<toolVars, confVars, logVars, shutdown, restVars>>

ProcessToolCall ==
    \E call \in ModelCalls, ex \in {"ok", "raise"}, logS \in LogOutcomes,
       logE \in LogOutcomes :
        /\ req.pc = "tools"
        /\ Len(req.outcomes) < req.n
        /\ call.name = "add_task" => nextId <= MaxAgentTasks
        /\ LET r == process_tool_call(req, call, tasks, nextId, ex, logS, logE)
           IN  /\ req' = r.req
               /\ tasks' = r.tasks
               /\ nextId' = r.nextId
               /\ audit' = audit \o r.entries
               /\ execs' = execs \o r.execs
               /\ turn' = IF r.req.pc = "raised"
                          THEN [turn EXCEPT !.error = "AIProcessingError"]
                          ELSE turn
        /\ UNCHANGED <<last, confVars, shutdown, restVars>>

\* return {"response", "tool_calls", "requires_confirmation"}
ReturnResponse ==
    /\ req.pc = "tools"
    /\ Len(req.outcomes) = req.n
    /\ req' = [req EXCEPT !.pc = "done"]
    /\ UNCHANGED <<toolVars, confVars, logVars, turn, shutdown,
                   restVars>>

\* ------------------------------------------------------ response text
HarmfulIndicators ==
    {"ignore previous", "disregard instructions", "system prompt",
     "as an ai language model"}

SafeRefusal ==
    <<Run("I apologize, but I cannot process that request. Please try rephrasing your command.", 1)>>

DefaultContent == <<Run("I've processed your request.", 1)>>

Ellipsis == <<Run(".", 3)>>

\* A moderation that compares without lower-casing.
_moderate_ai_response_CaseSensitive(response) ==
    IF \E indicator \in HarmfulIndicators : Contains(response, indicator)
    THEN SafeRefusal
    ELSE IF TextLen(response) > MaxResponseLen
    THEN Take(response, MaxResponseLen - 3) \o Ellipsis
    ELSE response

_moderate_ai_response(response) ==
    IF \E indicator \in HarmfulIndicators : Contains(Lower(response), indicator)
    THEN SafeRefusal
    ELSE IF TextLen(response) > MaxResponseLen
    THEN Take(response, MaxResponseLen - 3) \o Ellipsis
    ELSE response

\* response_content = ai_message.content or "I've processed your request."
\* and the "response" of the returned dictionary.
ResponseText(content) ==
    _moderate_ai_response(IF content = <<>> THEN DefaultContent ELSE content)

Filler(n) == IF n = 0 THEN <<>> ELSE <<Run("x", n)>>

FillerLens ==
    (0..MaxPad) \cup ((MaxResponseLen - 23 - MaxPad)..(MaxResponseLen - 23))
                \cup ((MaxResponseLen - MaxPad)..(MaxResponseLen + MaxPad))

Phrases ==
    {<<>>} \cup {<<Run(p, 1)>> : p \in HarmfulIndicators
                                      \cup {"As an AI language model",
                                            "Ignore Previous", "X", " "}}

\* What the model may say: filler, possibly one of the phrases, filler.
Replies ==
    {Filler(a) \o p \o Filler(b) : a \in FillerLens, p \in Phrases, b \in 0..MaxPad}

NoModerated == [content |-> <<>>, response |-> <<>>]

\* The text process_command returns for a model reply.
Moderate ==
    \E content \in Replies :
        /\ moderated' = [content |-> content, response |-> ResponseText(content)]
        /\ UNCHANGED <<toolVars, confVars, logVars, req, turn, shutdown, limited,
                       raceVars>>

\* ----------------------------------------------------------- context size
\* A context is a list of messages; what limit_context_size reads of a message
\* is the length of its content.  seq tells the messages apart.
Message(seq, len) == [seq |-> seq, len |-> len]

ContentLens == {0, 3, 5, 9}
Budgets == {1, 2}
CharsPerToken == 4

Contexts ==
    UNION {[1..n -> ContentLens] : n \in 0..MaxContext}

Numbered(lens) == [i \in 1..Len(lens) |-> Message(i, lens[i])]

\* The loop over reversed(context): i is the message looked at, chars the
\* running estimate, acc the list built so far by insert(0, message).
RECURSIVE LimitWalk(_, _, _, _, _)
LimitWalk(context, i, chars, acc, max_chars) ==
    IF i = 0
    THEN acc
    ELSE LET estimated_chars == chars + context[i].len
         IN  IF estimated_chars > max_chars
             THEN acc
             ELSE LimitWalk(context, i - 1, estimated_chars,
                            <<context[i]>> \o acc, max_chars)

limit_context_size(context, max_tokens) ==
    LimitWalk(context, Len(context), 0, <<>>, max_tokens * CharsPerToken)

NoLimited == [context |-> <<>>, max_tokens |-> 0, result |-> <<>>]

LimitContext ==
    \E lens \in Contexts, max_tokens \in Budgets :
        /\ limited' = [context |-> Numbered(lens), max_tokens |-> max_tokens,
                       result |-> limit_context_size(Numbered(lens),
                                                     max_tokens)]
        /\ UNCHANGED <<toolVars, confVars, logVars, req, turn, shutdown,
                       moderated, raceVars>>

\* ------------------------------------------------ POST /api/ai/confirm/{id}
\* ai_confirmation_endpoint: validate, then run the stored call through
\* _execute_mcp_tool.  The handler is asked nothing more, so the record stays
\* as it is, and no audit row is written.  After a successful execution the
\* response is built with MCPToolName, a name the module never imports, and
\* the request ends in the catch-all clause.
ai_confirmation_endpoint(pend, c, current_user, t, table, next, ex) ==
    LET v == validate_confirmation(pend, c, current_user, t)
        e == _execute_mcp_tool(pend[c].tool_name, pend[c].tool_params,
                               table, next, ex)
        answer(http, kind, tb, nx) ==
            [http |-> http, pending |-> v.pending, kind |-> kind,
             tasks |-> tb, nextId |-> nx]
    IN  IF v.result = "permission"
        THEN answer("HTTP 403", "none", table, next)
        ELSE IF v.result # "ok"
        THEN answer("HTTP 400", "none", table, next)
        ELSE IF e.kind = "ok"
        THEN answer("HTTP 500", e.kind, e.tasks, e.nextId)
        ELSE IF e.kind = "UserPermissionError"
        THEN answer("HTTP 403", e.kind, e.tasks, e.nextId)
        ELSE answer("HTTP 400", e.kind, e.tasks, e.nextId)

ConfirmEndpoint ==
    \E c \in ConfIds, u \in Users, ex \in {"ok", "raise"} :
        LET r == ai_confirmation_endpoint(pending, c, u, now, tasks, nextId, ex)
        IN  /\ ConfCall("confirm", c, u,
                        ConfResult(r.http, r.pending, r.kind, <<>>))
            /\ tasks' = r.tasks
            /\ nextId' = r.nextId
            /\ UNCHANGED <<last, agentVars>>

\* ------------------------------------------- Phase-2 TaskService (REST API)
\* TaskService.create_task: the row gets the next id, the caller as owner and
\* the column default completed = False.
TaskService_create_task(table, next, title, user_id) ==
    ToolResult("task",
               Put(table, next, [user_id |-> user_id, title |-> title,
                                 completed |-> FALSE]),
               next + 1, {next})

\* TaskService.get_task_by_id: the row with this id and this owner, or None.
TaskService_get_task_by_id(table, task_id, user_id) ==
    IF task_id \in DOMAIN table /\ table[task_id].user_id = user_id
    THEN <<table[task_id]>>
    ELSE <<>>

\* A toggle that marks the task completed whatever it was.
TaskService_toggle_completion_SetTrue(table, next, task_id, user_id, db) ==
    IF TaskService_get_task_by_id(table, task_id, user_id) = <<>>
    THEN ToolResult("None", table, next, {})
    ELSE IF db # "ok"
    THEN ToolResult("raise", table, next, {})
    ELSE ToolResult("task",
                    Put(table, task_id,
                        [table[task_id] EXCEPT !.completed = TRUE]),
                    next, {task_id})

\* TaskService.toggle_completion: None for a task that is absent or not the
\* caller's; else completed = not completed, committed.  A failing commit
\* raises and stores nothing.
TaskService_toggle_completion(table, next, task_id, user_id, db) ==
    IF TaskService_get_task_by_id(table, task_id, user_id) = <<>>
    THEN ToolResult("None", table, next, {})
    ELSE IF db # "ok"
    THEN ToolResult("raise", table, next, {})
    ELSE ToolResult("task",
                    Put(table, task_id,
                        [table[task_id] EXCEPT !.completed = ~@]),
                    next, {task_id})

\* TaskService.delete_task is committed with both sides of a merge between
\* its markers; side names the side that is kept.
MergeSides == {"HEAD", "003-frontend-better-auth"}

TaskService_delete_task(table, next, task_id, user_id, side, db) ==
    IF TaskService_get_task_by_id(table, task_id, user_id) = <<>>
    THEN IF side = "HEAD"
         THEN IF task_id \in DOMAIN table /\ table[task_id].user_id # user_id
              THEN ToolResult("False", table, next, {})
              ELSE ToolResult("True", table, next, {})
         ELSE ToolResult("False", table, next, {})
    ELSE IF db # "ok"
    THEN ToolResult("raise", table, next, {})
    ELSE ToolResult("True", Remove(table, task_id), next, {task_id})

ServiceTitles == {<<"a">>, <<"b">>}

CreateTask ==
    \E u \in Users, t \in ServiceTitles :
        /\ nextId <= MaxTasks
        /\ Finish("create_task", u, nextId,
                  TaskService_create_task(tasks, nextId, t, u))
        /\ UNCHANGED <<confVars, logVars, agentVars>>

ToggleCompletion ==
    \E u \in Users, id \in TaskIds, db \in DbOutcomes :
        /\ Finish("toggle_completion", u, id,
                  TaskService_toggle_completion(tasks, nextId, id, u, db))
        /\ UNCHANGED <<confVars, logVars, agentVars>>

ServiceDeleteTask ==
    \E u \in Users, id \in TaskIds, side \in MergeSides, db \in DbOutcomes :
        /\ Finish("TaskService.delete_task", u, id,
                  TaskService_delete_task(tasks, nextId, id, u, side, db))
        /\ UNCHANGED <<confVars, logVars, agentVars>>

\* ------------------------------------- concurrent approve and reject calls
\* Coroutines of one event loop, each making one call of the handler as the
\* owner of the confirmation it names.  A call runs without
\* interruption from one await that suspends to the next: the executor and
\* the audit writes.  validate_confirmation has no await of its own.
Procs == 1..MaxProcs

Worker(pc, op, id, user_id, result) ==
    [pc |-> pc, op |-> op, id |-> id, user |-> user_id, result |-> result]

Idle == Worker("idle", "none", 0, "", "none")

Busy == {"executor", "log_success", "log_error"}

\* Who calls: the owner of the record, or some user when there is none.
Caller(c) == IF c \in DOMAIN pending THEN pending[c].user_id ELSE "u1"

\* A marking that is left for later: the record is still pending while the
\* executor runs.
MarkApproved_Late(pend, c) == pend

\* confirmation_data["status"] = "approved"
MarkApproved(pend, c) == [pend EXCEPT ![c].status = "approved"]

Finished(p, result) ==
    workers' = [workers EXCEPT ![p].pc = "finished", ![p].result = result]

Won(c) == invoked' = [invoked EXCEPT ![c].wins = @ + 1]

\* approve_confirmation up to its first await: validate, mark, and hand the
\* stored call to the executor.
ApproveBegin(p) ==
    \E c \in ConfIds :
        LET u == Caller(c)
            v == validate_confirmation(pending, c, u, now)
        IN  /\ workers[p].pc = "idle"
            /\ IF v.result # "ok"
               THEN /\ pending' = v.pending
                    /\ workers' = [workers EXCEPT
                                       ![p] = Worker("finished", "approve", c,
                                                     u, v.result)]
                    /\ UNCHANGED invoked
               ELSE /\ invoked[c].runs <= MaxProcs
                    /\ pending' = MarkApproved(v.pending, c)
                    /\ workers' = [workers EXCEPT
                                       ![p] = Worker("executor", "approve", c,
                                                     u, "none")]
                    /\ invoked' = [invoked EXCEPT ![c].runs = @ + 1]
            /\ UNCHANGED <<nextConf, now, clast, consumed, toolVars, logVars,
                           req, turn, shutdown, moderated, limited>>

\* The executor returns or raises.
ExecutorReturns(p) ==
    \E ex \in {"ok", "raise"} :
        /\ workers[p].pc = "executor"
        /\ workers' = [workers EXCEPT
                           ![p].pc = IF ex = "ok" THEN "log_success"
                                     ELSE "log_error",
                           ![p].result = IF ex = "ok" THEN "none"
                                         ELSE "executor_raised"]
        /\ UNCHANGED <<confVars, toolVars, logVars, req, turn, shutdown,
                       moderated, limited, invoked>>

\* The success row is written, the record deleted and the approval returned;
\* or the write raises inside the try and the except block takes over.
SuccessLogged(p) ==
    \E log \in LogOutcomes :
        LET c == workers[p].id
        IN  /\ workers[p].pc = "log_success"
            /\ IF log # "ok"
               THEN /\ workers' = [workers EXCEPT
                                       ![p].pc = "log_error",
                                       ![p].result = "AuditLoggingError"]
                    /\ UNCHANGED <<pending, invoked>>
               ELSE IF c \in DOMAIN pending
               THEN /\ pending' = Remove(pending, c)
                    /\ Finished(p, "approved")
                    /\ Won(c)
               ELSE /\ Finished(p, "KeyError")
                    /\ UNCHANGED <<pending, invoked>>
            /\ UNCHANGED <<nextConf, now, clast, consumed, toolVars, logVars,
                           req, turn, shutdown, moderated, limited>>

\* The except block: write the error row, then raise what was caught, or the
\* AuditLoggingError of this write.
ErrorLogged(p) ==
    \E log \in LogOutcomes :
        /\ workers[p].pc = "log_error"
        /\ Finished(p, IF log = "ok" THEN workers[p].result
                       ELSE "AuditLoggingError")
        /\ UNCHANGED <<confVars, toolVars, logVars, req, turn, shutdown,
                       moderated, limited, invoked>>

\* reject_confirmation has no await that suspends: it runs in one piece.
RejectCall(p) ==
    \E c \in ConfIds :
        LET u == Caller(c)
            r == reject_confirmation(pending, c, u, now)
        IN  /\ workers[p].pc = "idle"
            /\ pending' = r.pending
            /\ workers' = [workers EXCEPT
                               ![p] = Worker("finished", "reject", c, u,
                                             r.result)]
            /\ IF r.result = "rejected" THEN Won(c) ELSE UNCHANGED invoked
            /\ UNCHANGED <<nextConf, now, clast, consumed, toolVars, logVars,
                           req, turn, shutdown, moderated, limited>>

\* ------------------------------------------------------------ initial state
NoConfCall ==
    [op |-> "none", id |-> 0, user |-> "", result |-> "none",
     before |-> <<>>, after |-> <<>>, executed |-> FALSE, at |-> 0,
     reused |-> FALSE]

NoReq ==
    [pc |-> "idle", user |-> "", rc |-> FALSE, n |-> 0, outcomes |-> <<>>,
     flag |-> FALSE, cur |-> NoCall, calls |-> <<>>]

Init ==
    /\ tasks = <<>>
    /\ nextId = 1
    /\ last = NoLast
    /\ pending = <<>>
    /\ nextConf = 0
    /\ now = 0
    /\ clast = NoConfCall
    /\ consumed = {}
    /\ audit = <<>>
    /\ execs = <<>>
    /\ req = NoReq
    /\ turn = NoTurn
    /\ shutdown = FALSE
    /\ moderated = NoModerated
    /\ limited = NoLimited
    /\ workers = [p \in Procs |-> Idle]
    /\ invoked = [c \in ConfIds |-> [runs |-> 0, wins |-> 0]]

NextTools == AddTask \/ ListTasks \/ UpdateTask \/ CompleteTask \/ DeleteTask

SpecTools == Init /\ [][NextTools]_vars

NextConf ==
    \/ CreateConfirmation
    \/ ValidateConfirmation
    \/ ApproveConfirmation
    \/ RejectConfirmation
    \/ CleanupExpired
    \/ Tick

SpecConf == Init /\ [][NextConf]_vars

NextAgent == StartCommand \/ ProcessToolCall \/ ReturnResponse

SpecAgent == Init /\ [][NextAgent]_vars

\* process_command from its first line, on a service that may be shut down.
NextCommand ==
    \/ Shutdown
    \/ BeginCommand
    \/ ReconstructContext
    \/ CallModel
    \/ ProcessToolCall
    \/ ReturnResponse

SpecCommand == Init /\ [][NextCommand]_vars

NextModerate == Moderate

SpecModerate == Init /\ [][NextModerate]_vars

\* Concurrent calls of the handler on confirmations two users create.
NextRace ==
    \/ CreateConfirmation
    \/ \E p \in Procs :
          \/ ApproveBegin(p)
          \/ ExecutorReturns(p)
          \/ SuccessLogged(p)
          \/ ErrorLogged(p)
          \/ RejectCall(p)

SpecRace == Init /\ [][NextRace]_vars

NextContext == LimitContext

SpecContext == Init /\ [][NextContext]_vars

\* The confirmation endpoint over confirmations the handler holds and a task
\* store that add_task fills.
NextConfirm ==
    \/ AddTask
    \/ CreateConfirmation
    \/ ConfirmEndpoint

SpecConfirm == Init /\ [][NextConfirm]_vars

\* The Phase-2 task service over one task table.
NextService == CreateTask \/ ToggleCompletion \/ ServiceDeleteTask

SpecService == Init /\ [][NextService]_vars

\* ------------------------------------------------------------------ claims
Mutators == {"update_task", "complete_task", "delete_task"}

\* C1: a mutating tool issued by an identity that is not the owner of the
\* addressed task answers TASK_NOT_FOUND_OR_UNAUTHORIZED (INVALID_USER_ID for
\* a blank identity) and leaves that task stored with every field as before.
C1_CrossUserIsolation ==
    (/\ last.op \in Mutators
     /\ last.before # <<>>
     /\ last.before[1].user_id # last.user)
    => /\ last.code = IF validate_user_id(last.user)
                      THEN "TASK_NOT_FOUND_OR_UNAUTHORIZED"
                      ELSE "INVALID_USER_ID"
       /\ last.id \in DOMAIN tasks
       /\ tasks[last.id] = last.before[1]

\* A user other than the owner has tried each kind of mutation on a task that
\* its owner had changed before.
C1_Witness ==
    /\ last.op = "delete_task"
    /\ last.user \in Users
    /\ last.before # <<>>
    /\ last.before[1].user_id \in Users \ {last.user}
    /\ last.before[1].completed
    /\ last.code = "TASK_NOT_FOUND_OR_UNAUTHORIZED"

ConfOps == {"validate", "approve", "reject"}
Passed == {"ok", "approved", "rejected"}

\* C2: validate, approve or reject of a pending confirmation by a requester
\* other than its owner raises the permission error, runs no executor and
\* leaves the record stored as it was, status pending.
C2_ConfirmationOwnership ==
    (/\ clast.op \in ConfOps
     /\ clast.before # <<>>
     /\ clast.before[1].status = "pending"
     /\ clast.before[1].user_id # clast.user)
    => /\ clast.result = "permission"
       /\ ~clast.executed
       /\ clast.after = clast.before

\* Another user's approve was refused on a pending, unexpired confirmation.
C2_Witness ==
    /\ clast.op = "approve"
    /\ clast.before # <<>>
    /\ clast.before[1].status = "pending"
    /\ clast.before[1].user_id # clast.user
    /\ clast.before[1].expires_at >= clast.at
    /\ clast.result = "permission"

\* C4: a call on an id that was already approved, rejected or found expired
\* fails as not found and runs no executor.
C4_SingleUse ==
    (clast.op \in ConfOps /\ clast.reused)
    => (clast.result = "not_found" /\ ~clast.executed)

\* C5: an approval whose executor raised has removed the record from the
\* pending store.
C5_ApprovalConsumedOnFailure ==
    (clast.op = "approve" /\ clast.result = "executor_raised")
    => clast.after = <<>>

Last(q) == q[Len(q)]

\* A step of the loop over tool_calls of the running request.
IsCallStep == req.pc = "tools" /\ Len(req.outcomes) < req.n /\ req' # req

PendingOutcomes == {i \in 1..Len(req.outcomes) : req.outcomes[i].status = "pending"}

C8_PendingAuditEntry ==
    Cardinality(PendingOutcomes) =
        Cardinality({j \in 1..Len(audit) : audit[j].status = "pending"})

\* C9: a user_id found in the parameters of a call of the running request,
\* as executed, as written to the audit log or as returned in its outcome, is
\* the caller's user_id.
OfCaller(tool_params) ==
    tool_params.user_id # NoUser => tool_params.user_id = req.user

C9_CallerIdentityWins ==
    /\ \A i \in 1..Len(req.outcomes) : OfCaller(req.outcomes[i].tool_params)
    /\ \A j \in 1..Len(audit) : OfCaller(audit[j].tool_params)
    /\ \A k \in 1..Len(execs) : OfCaller(execs[k].tool_params)

ExecutionFailed ==
    /\ IsCallStep
    /\ Len(execs') = Len(execs) + 1
    /\ Last(execs').kind = "ToolExecutionError"

ReportedAsError ==
    /\ req'.pc = "tools"
    /\ req'.outcomes =
           Append(req.outcomes,
                  Outcome(req'.cur.name, req'.cur.args, "error", "error"))
    /\ audit' = Append(audit, AuditEntry(req.user, req'.cur.name,
                                         req'.cur.args, "error"))

AuditStatusOf(kind) == IF kind = "ok" THEN "success" ELSE "error"

ExecutedRows ==
    [k \in 1..Len(execs) |->
        [tool_name |-> execs[k].tool_name,
         tool_params |-> execs[k].tool_params,
         status |-> AuditStatusOf(execs[k].kind)]]

AuditRows ==
    [j \in 1..Len(audit) |->
        [tool_name |-> audit[j].tool_name,
         tool_params |-> audit[j].tool_params,
         status |-> audit[j].status]]

\* C7: as long as the audit store takes the writes, every call handed to an
\* executor by the last operation has exactly one audit row, which names the
\* tool and the parameters it ran with and says success when it returned and
\* error when it raised.
C7_OneAuditEntryPerExecution ==
    clast.result # "AuditLoggingError" => AuditRows = ExecutedRows

\* ------------------------------------------------- process_command, errors
\* C11: a tool call that ended in UserPermissionError ends the request with
\* UserPermissionError; no response reports it.
C11_PermissionErrorPropagates ==
    (\E k \in 1..Len(execs) : execs[k].kind = "UserPermissionError")
        => (req.pc = "raised" /\ turn.error = "UserPermissionError")

\* ------------------------------------------- process_command, before the loop
\* C12: the model is called at most MaxRetries times for one request; a
\* request whose MaxRetries-th call failed has ended in AIProcessingError
\* with nothing executed, logged or reported; once the model has answered
\* the retry loop is over.
C12_BoundedRetry ==
    /\ turn.attempts <= MaxRetries
    /\ turn.sleeps < MaxRetries
    /\ turn.attempts = MaxRetries
           => /\ req.pc = "raised"
              /\ turn.error = "AIProcessingError"
              /\ execs = <<>> /\ audit = <<>> /\ req.outcomes = <<>>
    /\ req.pc \in {"tools", "done"} => turn.attempts = 0 /\ turn.sleeps = 0

\* Three transient failures in a row, two sleeps, and the request is over.
C12_Witness ==
    /\ req.pc = "raised"
    /\ turn.attempts = MaxRetries
    /\ turn.sleeps = MaxRetries - 1
    /\ is_transient(turn.err)

\* C13: after a model call that failed with a text holding none of the
\* transient words, the request has ended in AIProcessingError; there was no
\* sleep after that call (one sleep for each call before it) and nothing
\* was executed.
C13_OnlyTransientRetried ==
    (turn.attempts >= 1
        /\ \A err \in TransientErrors : ~Contains(Lower(turn.err), err))
    => /\ req.pc = "raised"
       /\ turn.error = "AIProcessingError"
       /\ turn.sleeps = turn.attempts - 1
       /\ execs = <<>>

\* A transient failure, one sleep, then a failure that is not transient.
C13_Witness ==
    /\ req.pc = "raised"
    /\ turn.attempts = 2
    /\ turn.sleeps = 1
    /\ turn.err = <<Run("invalid api key", 1)>>

AllWhitespace(message) == \A i \in 1..Len(message) : message[i].ch = " "

Rejectable(message) ==
    \/ TextLen(message) = 0
    \/ AllWhitespace(message)
    \/ TextLen(message) > MaxMessageLen

\* C14: a message that is empty, all whitespace or longer than
\* MaxMessageLen ends the request in AIProcessingError before the context is
\* read or the model is called.  Any other message goes on to the context
\* reconstructor on a service that is up, and to the model call unless the
\* reconstructor raises.
C14_MessageLengthGate ==
    turn.msg # <<>> =>
        LET message == turn.msg[1]
        IN  IF Rejectable(message)
            THEN /\ req.pc = "raised"
                 /\ turn.error = "AIProcessingError"
                 /\ turn.ctx = 0
                 /\ turn.attempts = 0
            ELSE /\ (req.pc = "raised" /\ turn.ctx = 0) => shutdown
                 /\ (req.pc = "raised" /\ turn.ctx = 1 /\ turn.attempts = 0)
                        => turn.error = "ContextRetrievalError"

\* A message of exactly MaxMessageLen characters is on its way to the model.
C14_Witness ==
    /\ req.pc = "model"
    /\ turn.msg # <<>>
    /\ TextLen(turn.msg[1]) = MaxMessageLen
    /\ turn.ctx = 1

\* C15: the shutdown flag, once set, stays set, and a request that starts
\* while it is set ends at once in AIProcessingError: no context read, no
\* model call, no tool executed, no audit row, no task changed.
C15_ShutdownGate ==
    /\ [][shutdown => shutdown']_vars
    /\ [][(shutdown /\ req.pc \in {"idle", "done", "raised"}
              /\ <<req, turn>>' # <<req, turn>>)
          => /\ req'.pc = "raised"
             /\ turn'.error = "AIProcessingError"
             /\ turn'.ctx = 0
             /\ turn'.attempts = 0
             /\ execs' = <<>>
             /\ audit' = <<>>
             /\ tasks' = tasks]_vars

\* A message that would pass was turned away by a service that is shut down,
\* while a task is in the store.
C15_Witness ==
    /\ shutdown
    /\ req.pc = "raised"
    /\ turn.msg # <<>>
    /\ MessageGate(turn.msg[1]) = "ok"
    /\ turn.ctx = 0
    /\ tasks # <<>>

\* ------------------------------------------------------------ response text
Flagged(content) ==
    \E indicator \in HarmfulIndicators : Contains(Lower(content), indicator)

EndsWithEllipsis(text) ==
    text # <<>> /\ text[Len(text)] = Run(".", 3)

\* C16: the returned text is the refusal whenever the reply holds an
\* indicator in any spelling; otherwise a reply longer than MaxResponseLen
\* comes back as its first MaxResponseLen - 3 characters and an ellipsis, and
\* a shorter one as it is (the stock sentence when it is empty); the returned
\* text is never longer than MaxResponseLen.
C16_ResponseModeration ==
    moderated # NoModerated =>
        LET r == moderated.content
            text == moderated.response
        IN  /\ TextLen(text) <= MaxResponseLen
            /\ IF Flagged(r) THEN text = SafeRefusal
               ELSE IF TextLen(r) > MaxResponseLen
               THEN /\ TextLen(text) = MaxResponseLen
                    /\ EndsWithEllipsis(text)
                    /\ SubSeq(text, 1, Len(text) - 1) = Take(r, MaxResponseLen - 3)
               ELSE IF r = <<>> THEN text = DefaultContent
               ELSE text = r

\* An indicator in mixed case, standing beyond character MaxResponseLen of the
\* reply, has been answered with the refusal.
C16_Witness ==
    /\ moderated.response = SafeRefusal
    /\ Len(moderated.content) >= 2
    /\ moderated.content[1] = Run("x", MaxResponseLen + 1)
    /\ moderated.content[2] = Run("As an AI language model", 1)


\* ------------------------------------------------------- Phase-2 task service
Toggled(l) == l.op = "toggle_completion" /\ l.code = "task"

\* C17: a toggle of an existing task by its owner that commits returns the
\* task with completed flipped, owner and title as they were; a second toggle
\* of the same task directly after it stores the task as it was before the
\* first.
C17_ToggleInvolution ==
    /\ []((/\ last.op = "toggle_completion"
           /\ last.before # <<>>
           /\ last.before[1].user_id = last.user
           /\ last.code # "raise")
          => /\ last.code = "task"
             /\ last.id \in DOMAIN tasks
             /\ tasks[last.id].completed = ~last.before[1].completed
             /\ tasks[last.id].user_id = last.before[1].user_id
             /\ tasks[last.id].title = last.before[1].title)
    /\ [][(/\ Toggled(last)
           /\ Toggled(last')
           /\ last'.id = last.id
           /\ last' # last)
          => /\ last.id \in DOMAIN tasks'
             /\ tasks'[last.id] = last.before[1]]_vars

\* A completed task has been toggled back by its owner.
C17_Witness ==
    /\ Toggled(last)
    /\ last.before # <<>>
    /\ last.before[1].completed
    /\ ~tasks[last.id].completed


DeleteOps == {"delete_task", "TaskService.delete_task"}
NotFoundOutcomes == {"TASK_NOT_FOUND_OR_UNAUTHORIZED", "TASK_NOT_FOUND", "False"}

\* C18: a delete by a valid identity of a task id that is not stored (never
\* created or already deleted) answers not found and changes no stored task,
\* each time it is made.
C18_DeleteMissingNotFound ==
    [][(/\ last'.op \in DeleteOps
        /\ last'.user \in Users
        /\ last'.id \notin DOMAIN tasks)
       => /\ last'.code \in NotFoundOutcomes
          /\ tasks' = tasks]_vars


\* ------------------------------------------------------------ add then list
Succeeded(l, op) == l.op = op /\ l.code = "success"

\* C19: a successful add_task stores the task not completed and owned by the
\* caller, and the list_tasks that the same identity makes directly after it,
\* with no filter or a filter the new task passes, succeeds with the new task
\* in it; a successful list_tasks returns only stored tasks whose owner is the
\* requesting identity, whatever was done before by whom.
C19_AddThenList ==
    /\ Succeeded(last, "add_task")
       => /\ last.id \in DOMAIN tasks
          /\ ~tasks[last.id].completed
          /\ tasks[last.id].user_id = last.user
          /\ \A s \in StatusFilters \ {"completed"} :
                LET r == list_tasks(tasks, nextId, last.user, s, "ok") IN
                r.code = "success" /\ last.id \in r.ret
    /\ Succeeded(last, "list_tasks")
       => \A k \in last.ret :
              k \in DOMAIN tasks /\ tasks[k].user_id = last.user

\* A user has listed and got a task back while another user's task is stored
\* as well.
C19_Witness ==
    /\ Succeeded(last, "list_tasks")
    /\ last.ret # {}
    /\ \E k \in DOMAIN tasks : tasks[k].user_id \in Users \ {last.user}


\* --------------------------------------------------------- storage failures
\* The storage operations of a call on a task: the ownership query, then the
\* tool's own session.  One of them fails.
TaskFaults == {f \in [dbv : DbOutcomes, db : DbOutcomes] :
                  f.dbv = "fail" \/ f.db = "fail"}

\* C20: on every store the tools can produce, each of the five tools, called
\* by a valid identity (that owns the task addressed, with input that passes
\* validation) while a storage operation of the call fails, answers
\* DATABASE_ERROR.
C20_StorageFailureIsDatabaseError ==
    /\ \A u \in Users :
          /\ \A t \in {x \in AddTitles : ~InvalidTitle(x)} :
                add_task(tasks, nextId, u, t, "fail").code = "DATABASE_ERROR"
          /\ \A s \in StatusFilters :
                list_tasks(tasks, nextId, u, s, "fail").code = "DATABASE_ERROR"
    /\ \A id \in DOMAIN tasks : \A f \in TaskFaults :
          LET u == tasks[id].user_id IN
          /\ \A t \in UpdateTitles, c \in Flags :
                update_task(tasks, nextId, u, id, t, c, f.dbv, f.db).code
                    = "DATABASE_ERROR"
          /\ \A c \in {"True", "False"} :
                complete_task(tasks, nextId, u, id, c, f.dbv, f.db).code
                    = "DATABASE_ERROR"
          /\ delete_task(tasks, nextId, u, id, f.dbv, f.db).code
                = "DATABASE_ERROR"


\* ------------------------------------------------- confirmation endpoint
Confirmed(c) ==
    /\ c.op = "confirm"
    /\ c.executed
    /\ execs # <<>>
    /\ execs[1].kind = "ok"

\* C21: a confirm call by the owner whose stored tool call has run answers
\* success (HTTP 200 with the one tool_call entry) and leaves the confirmation
\* out of the pending store, so that a later confirm call for it runs nothing.
C21_ConfirmConsumes ==
    Confirmed(clast)
    => /\ clast.result = "HTTP 200"
       /\ clast.after = <<>>


\* C22: validate_confirmation of a stored record by a requester who is not its
\* owner raises the permission error, whatever the record's status and whether
\* or not it is past its expiry.
C22_PermissionIndependentOfState ==
    (/\ clast.op = "validate"
     /\ clast.before # <<>>
     /\ clast.before[1].user_id # clast.user)
    => clast.result = "permission"


\* ------------------------------------------------ shutdown and work in flight
InFlight(r) == r.pc \in {"context", "model", "tools"}

\* C23: a request that is past the shutdown check when the service is shut
\* down is not cut short: while it waits for the model it can still get its
\* answer and go on to its tool calls, and while it processes them it can
\* still go on to its normal return.
C23_ShutdownKeepsInFlight ==
    (shutdown /\ InFlight(req))
    => /\ req.pc = "model" => ENABLED (CallModel /\ req'.pc = "tools")
       /\ req.pc = "tools"
          => ENABLED ((ProcessToolCall \/ ReturnResponse) /\ req'.pc # "raised")


\* ---------------------------------------------------------- in-turn ordering
\* The calls of the turn that are handed to the executor: all but the
\* destructive ones of a request that asks for confirmation.
IsExecuted(call) == ~(req.rc /\ _is_destructive_operation(call.name))

ExecutedCalls == SelectSeq(req.calls, IsExecuted)

\* C24: in a turn, the outcomes are those of the model's calls in the model's
\* order, and so are the executions and the audit rows; between two calls the
\* execution and the audit row of every earlier call are there, and only the
\* audit write that ended the request can be missing.
C24_InTurnOrdering ==
    /\ Len(req.outcomes) <= Len(req.calls)
    /\ req.pc \in {"tools", "done"} => Len(req.outcomes) = Len(req.calls)
    /\ \A k \in 1..Len(req.outcomes) :
          /\ req.outcomes[k].tool_name = req.calls[k].name
          /\ req.outcomes[k].tool_params
                 \in {req.calls[k].args, Inject(req.calls[k].args, req.user)}
    /\ Len(execs) = Len(ExecutedCalls)
    /\ \A k \in 1..Len(execs) : execs[k].tool_name = ExecutedCalls[k].name
    /\ Len(audit) <= Len(execs)
    /\ req.pc \in {"tools", "done"} => Len(audit) = Len(execs)
    /\ \A j \in 1..Len(audit) : audit[j].tool_name = execs[j].tool_name

\* A turn of two different calls, both executed and audited, has returned.
C24_Witness ==
    /\ req.pc = "done"
    /\ Len(req.outcomes) = 2
    /\ req.outcomes[1].tool_name = "add_task"
    /\ req.outcomes[2].tool_name = "complete_task"
    /\ req.outcomes[2].status = "success"
    /\ Len(audit) = 2
    /\ audit[2].tool_name = "complete_task"


\* ------------------------------------------------------- ownership check
Owns(user_id, task_id) ==
    task_id \in DOMAIN tasks /\ tasks[task_id].user_id = user_id

Rejected(c) == c.op = "reject" /\ c.result = "rejected"

\* C26: a reject_confirmation that succeeds takes that one confirmation out of
\* the pending store and nothing else: every other confirmation stays as it
\* was, no executor is called, no audit row is written and no task changes.
C26_RejectFrame ==
    [][(clast' # clast /\ Rejected(clast'))
       => /\ clast'.id \in DOMAIN pending
          /\ pending' = Remove(pending, clast'.id)
          /\ ~clast'.executed
          /\ execs' = <<>>
          /\ audit' = <<>>
          /\ tasks' = tasks
          /\ nextId' = nextId]_vars

\* The owner has rejected one confirmation while another one is pending.
C26_Witness ==
    /\ Rejected(clast)
    /\ clast.after = <<>>
    /\ \E c \in DOMAIN pending : pending[c].status = "pending"


\* ------------------------------------------------------------ context size
RECURSIVE TotalLen(_)
TotalLen(context) ==
    IF context = <<>> THEN 0 ELSE Head(context).len + TotalLen(Tail(context))

IsSuffix(result, context) ==
    /\ Len(result) <= Len(context)
    /\ result = SubSeq(context, Len(context) - Len(result) + 1, Len(context))

\* C27: what limit_context_size returns is a suffix of the context in its
\* order, holds at most max_tokens x 4 characters of content, and holds the
\* most recent message whenever the context has one.
C27_ContextTrimming ==
    /\ IsSuffix(limited.result, limited.context)
    /\ TotalLen(limited.result) <= limited.max_tokens * CharsPerToken
    /\ limited.context # <<>>
       => /\ limited.result # <<>>
          /\ limited.result[Len(limited.result)]
                 = limited.context[Len(limited.context)]


\* -------------------------------------------------------- audit write failure
\* A step of the loop in which the tool ran and succeeded and no success row
\* was stored for it: the audit write after the execution failed.
SuccessRowMissing ==
    /\ IsCallStep
    /\ Len(execs') = Len(execs) + 1
    /\ Last(execs').kind = "ok"
    /\ \A j \in (Len(audit) + 1)..Len(audit') : audit'[j].status # "success"

\* C28: an audit write that fails raises and stores no row.  When the audit
\* write after a successful execution fails, the call is not reported as a success (it is reported as an error, or the request ends
\* in AIProcessingError when the error row cannot be written either), and what
\* the tool did to the tasks stays.
C28_AuditFailureNotSwallowed ==
    /\ [](\A status \in {"success", "error"} :
            LET w == log_tool_call(AuditEntry(req.user, req.cur.name,
                                              req.cur.args, status), "fail")
            IN  w.raised /\ w.rows = <<>>)
    /\ [][SuccessRowMissing
          => /\ \/ req'.pc = "raised" /\ req'.outcomes = req.outcomes
                \/ /\ req'.outcomes =
                          Append(req.outcomes,
                                 Outcome(req'.cur.name, req'.cur.args,
                                         "error", "error"))
                   /\ Last(audit').status = "error"
             /\ LET e == _execute_mcp_tool(Last(execs').tool_name,
                                           Last(execs').tool_params,
                                           tasks, nextId, "ok")
                IN  tasks' = e.tasks /\ nextId' = e.nextId]_vars

\* add_task has stored the task, its success row could not be written, and the
\* call came back with status error.
C28_Witness ==
    /\ req.pc \in {"tools", "done"}
    /\ req.outcomes # <<>>
    /\ Last(req.outcomes).tool_name = "add_task"
    /\ Last(req.outcomes).status = "error"
    /\ execs # <<>>
    /\ Last(execs).kind = "ok"
    /\ Last(execs).tool_name = "add_task"
    /\ audit # <<>>
    /\ Last(audit).status = "error"
    /\ tasks # <<>>


\* ------------------------------------------------- concurrent confirmations
ConfirmationErrors == {"not_found", "not_pending", "expired"}

\* C29: however approve and reject calls on one confirmation interleave at
\* their await points, its executor is invoked at most once and at most one
\* call returns successfully; while one call holds the confirmation, every
\* other call of the owner on it has failed with a confirmation error.
C29_AtMostOnce ==
    /\ \A c \in ConfIds : invoked[c].runs <= 1 /\ invoked[c].wins <= 1
    /\ \A p, q \in Procs :
          (/\ p # q
           /\ workers[p].pc \in Busy
           /\ workers[q].id = workers[p].id
           /\ workers[q].user = workers[p].user)
          => /\ workers[q].pc = "finished"
             /\ workers[q].result \in ConfirmationErrors

\* One approval waits for its executor while a second call of the owner on the
\* same confirmation has come back "not pending".
C29_Witness ==
    \E p, q \in Procs :
        /\ p # q
        /\ workers[p].pc = "executor"
        /\ workers[q].id = workers[p].id
        /\ workers[q].user = workers[p].user
        /\ workers[q].pc = "finished"
        /\ workers[q].op = "approve"
        /\ workers[q].result = "not_pending"


\* ------------------------------------------------- shape of a normal result
ToolCallStatus == {"success", "error", "pending"}

\* C30: a process_command that has returned normally reports one outcome per
\* call the model requested, each with status success, error or pending; its
\* requires_confirmation flag is set exactly when some outcome is pending; an
\* outcome is pending only for delete_task in a request that asked for
\* confirmation, and then its result is null; every other call was handed to
\* the executor, whatever the request asked.
C30_ResultShape ==
    req.pc = "done"
    => /\ Len(req.outcomes) = req.n
       /\ Len(req.calls) = req.n
       /\ \A k \in 1..Len(req.outcomes) :
             LET o == req.outcomes[k] IN
             /\ o.status \in ToolCallStatus
             /\ o.tool_name = req.calls[k].name
             /\ o.status = "pending"
                => /\ o.tool_name = "delete_task"
                   /\ req.rc
                   /\ o.result = "null"
             /\ o.tool_name # "delete_task" => o.status # "pending"
             /\ (o.tool_name = "delete_task" /\ ~req.rc) => o.status # "pending"
       /\ req.flag <=> PendingOutcomes # {}
       /\ Len(execs) = Len(req.outcomes) - Cardinality(PendingOutcomes)

\* A request that asked for confirmation has returned: its delete_task is
\* pending, its add_task was executed, and the flag is set.
C30_Witness ==
    /\ req.pc = "done"
    /\ req.rc
    /\ req.flag
    /\ Len(req.outcomes) = 2
    /\ req.outcomes[1].tool_name = "delete_task"
    /\ req.outcomes[1].status = "pending"
    /\ req.outcomes[2].tool_name = "add_task"
    /\ req.outcomes[2].status = "success"
    /\ Len(execs) = 1

====
